---------------------------- MODULE Spec2Model ----------------------------
(***************************************************************************)
(* A model of jirosso (src/jirosso.py): the JiraHelper session helper with *)
(* its lazily memoized connection and issue, the handle_jira_exception     *)
(* decorator, the click validation callbacks, and the two commands         *)
(* commit-time and create-issue.                                           *)
(*                                                                         *)
(* Strings are tuples of one-character strings.  The remote JIRA service   *)
(* is opaque: every remote call is logged in `calls` and its outcome is    *)
(* chosen nondeterministically (success, a JIRAError, or an exception      *)
(* that is not a JIRAError such as a transport error).                     *)
(***************************************************************************)
EXTENDS Integers, Sequences, FiniteSets, TLC

VARIABLES
    pc,         \* position of the process
    cmd,        \* the subcommand of this run
    args,       \* the raw command-line values
    params,     \* the values the command body receives (after the callbacks)
    config,     \* JiraHelper.config
    attrs,      \* the JiraHelper instance __dict__ slots `jira` and `issue`
    nconn,      \* number of JIRA(...) sessions constructed so far
    calls,      \* the remote calls made so far, in order
    out,        \* the lines written to the terminal, in order
    exit_code,  \* the process exit code, Running while the process runs
    new_issue,  \* create_issue's local `new_issue`
    branch,     \* the branch name given to `git branch -m`
    nops        \* number of helper operations a direct caller has invoked

vars == <<pc, cmd, args, params, config, attrs, nconn, calls, out,
          exit_code, new_issue, branch, nops>>

---------------------------------------------------------------------------
(* Bounds of the model *)

MaxTimeLen == 3
MaxIssueLen == 3
MaxOps == 3
MaxValidateLen == 4

(* Values *)

Running == -1
None == <<"None">>
NoHandle == 0
NoIssue == <<>>

TimeAlphabet == {"3", "m", "x"}
IssueAlphabet == {"A", "-", "1"}
Digits == {"0", "1", "2", "3", "4", "5", "6", "7", "8", "9"}
Letters == {"A", "B", "a", "b", "x", "m", "h", "d", "w", "_"}
WordChars == Letters \cup Digits
TimeUnits == {"m", "h", "d", "w"}

Strs(alphabet, n) == UNION {[1..k -> alphabet] : k \in 0..n}
TimeInputs == Strs(TimeAlphabet, MaxTimeLen)
IssueInputs == Strs(IssueAlphabet, MaxIssueLen)
MessageInputs == {<<>>, <<"m", "s", "g">>}

NewIssueKey == <<"N", "E", "W", "-", "1">>
HelperIssueIds == {<<"A", "-", "1">>, <<"B", "-", "2">>}

Outcomes == {"ok", "JIRAError", "Exception"}
Oracles == [connect : Outcomes, fetch : Outcomes, call : Outcomes, resp : BOOLEAN]

MutatingOps == {"add_worklog", "add_comment", "create_issue", "assign_issue",
                "create_issue_link"}

Falsy(v) == v = None \/ v = <<>>

---------------------------------------------------------------------------
(* Output lines and remote calls *)

Line(text, val) == [text |-> text, val |-> val]

Call(via, op, handle, issue, a, b, result, resp) ==
    [via |-> via, op |-> op, handle |-> handle, issue |-> issue,
     a |-> a, b |-> b, result |-> result, resp |-> resp]

Permalink(key) == <<"b", "r", "o", "w", "s", "e", "/">> \o key

---------------------------------------------------------------------------
(* The world a helper operation runs in: the helper's state, the remote    *)
(* log and the terminal, with the exception in flight (raised), the exit   *)
(* status of a SystemExit (code) and the values of the last property       *)
(* accesses (h: the session handle, iss: the issue, ret: a return value).  *)

World ==
    [config |-> config, attrs |-> attrs, nconn |-> nconn, calls |-> calls,
     out |-> out, raised |-> "none", code |-> 0,
     h |-> NoHandle, iss |-> None, ret |-> None]

Raise(w, e) == [w EXCEPT !.raised = e]
Log(w, c) == [w EXCEPT !.calls = Append(@, c)]
Echo(w, text, val) ==
    IF w.raised # "none" THEN w
    ELSE [w EXCEPT !.out = Append(@, Line(text, val))]
SysExit(w, code) ==
    IF w.raised # "none" THEN w
    ELSE [w EXCEPT !.raised = "SystemExit", !.code = code]

(* lazyproperty.__get__ with a non-None instance: the computed value is    *)
(* stored in the instance __dict__ under the function's name, where it     *)
(* shadows the (non-data) descriptor on every later access.                *)
lazyproperty_get_nostore(d, name, value) == d

lazyproperty_get(d, name, value) == [d EXCEPT ![name] = value]

set_config_noop(w, key, value) == w

(* JiraHelper.set_config *)
set_config(w, key, value) ==
    IF w.raised # "none" THEN w
    ELSE [w EXCEPT !.config = [@ EXCEPT ![key] = value]]

(* The attribute self.jira: the memoized handle, or JIRA(...) on first use *)
jira(w, via, o) ==
    IF w.raised # "none" THEN w
    ELSE IF w.attrs.jira # NoHandle THEN [w EXCEPT !.h = w.attrs.jira]
    ELSE LET c == Call(via, "JIRA", NoHandle, None, w.config.username,
                       w.config.jira_server, o.connect, o.resp)
         IN  IF o.connect = "ok"
             THEN [Log(w, c) EXCEPT
                      !.nconn = @ + 1,
                      !.attrs = lazyproperty_get(w.attrs, "jira", w.nconn + 1),
                      !.h = w.nconn + 1]
             ELSE Raise(Log(w, c), o.connect)

(* The attribute self.issue: the memoized issue, or self.jira.issue(...)   *)
(* on first use.  An issue is represented by the identifier it was fetched *)
(* for.                                                                    *)
issue(w, via, o) ==
    IF w.raised # "none" THEN w
    ELSE IF w.attrs.issue # NoIssue THEN [w EXCEPT !.iss = w.attrs.issue[1]]
    ELSE LET w1 == jira(w, via, o)
             c == Call(via, "issue", w1.h, w1.config.issue, None, None,
                       o.fetch, o.resp)
         IN  IF w1.raised # "none" THEN w1
             ELSE IF o.fetch = "ok"
             THEN [Log(w1, c) EXCEPT
                      !.attrs = lazyproperty_get(w1.attrs, "issue",
                                                 <<w1.config.issue>>),
                      !.iss = w1.config.issue]
             ELSE Raise(Log(w1, c), o.fetch)

Remote_retry(w, via, op, handle, target, a, b, o) ==
    IF w.raised # "none" THEN w
    ELSE LET c == Call(via, op, handle, target, a, b, o.call, o.resp)
         IN  IF o.call = "ok" THEN Log(w, c)
             ELSE Raise(Log(Log(w, c), c), o.call)

(* One call on the session; `target` is the issue it is made against *)
Remote(w, via, op, handle, target, a, b, o) ==
    IF w.raised # "none" THEN w
    ELSE LET c == Call(via, op, handle, target, a, b, o.call, o.resp)
         IN  IF o.call = "ok" THEN Log(w, c) ELSE Raise(Log(w, c), o.call)

(* handle_jira_exception.wrapper: a JIRAError raised by the wrapped call   *)
(* is shown (with the response text when there is one) and the process     *)
(* exits with click.ClickException.exit_code.                              *)
ClickExceptionExitCode == 1
UsageErrorExitCode == 2

handle_jira_exception_swallow(w) ==
    IF w.raised = "JIRAError" THEN [w EXCEPT !.raised = "none"] ELSE w

handle_jira_exception_exit0(w) ==
    IF w.raised = "JIRAError"
    THEN LET last == w.calls[Len(w.calls)]
             w1 == [w EXCEPT !.raised = "none"]
             w2 == Echo(w1, "Error: JIRAError.text", <<last.op>>)
         IN  SysExit(w2, 0)
    ELSE w

handle_jira_exception_catch_all(w) ==
    IF w.raised \in {"JIRAError", "Exception"}
    THEN LET last == w.calls[Len(w.calls)]
             w1 == [w EXCEPT !.raised = "none"]
             w2 == Echo(w1, "Error: JIRAError.text", <<last.op>>)
         IN  SysExit(w2, ClickExceptionExitCode)
    ELSE w

handle_jira_exception(w) ==
    IF w.raised = "JIRAError"
    THEN LET last == w.calls[Len(w.calls)]
             w1 == [w EXCEPT !.raised = "none"]
             w2 == Echo(w1, "Error: JIRAError.text", <<last.op>>)
             w3 == IF last.resp
                   THEN Echo(w2, "Error: JIRAError.response.text", <<last.op>>)
                   ELSE w2
         IN  SysExit(w3, ClickExceptionExitCode)
    ELSE w

(* JiraHelper.add_worklog *)
add_worklog(w, time, message, o) ==
    LET w1 == jira(w, "add_worklog", o)
        w2 == issue(w1, "add_worklog", o)
    IN  handle_jira_exception(
            Remote(w2, "add_worklog", "add_worklog", w1.h, w2.iss,
                   time, message, o))

(* JiraHelper.add_comment *)
add_comment_as_worklog(w, message, o) ==
    LET w1 == jira(w, "add_comment", o)
        w2 == issue(w1, "add_comment", o)
    IN  handle_jira_exception(
            Remote(w2, "add_comment", "add_worklog", w1.h, w2.iss,
                   message, None, o))

add_comment(w, message, o) ==
    LET w1 == jira(w, "add_comment", o)
        w2 == issue(w1, "add_comment", o)
    IN  handle_jira_exception(
            Remote(w2, "add_comment", "add_comment", w1.h, w2.iss,
                   message, None, o))

(* JiraHelper.create_issue_link *)
create_issue_link_reversed(w, from_issue, to_issue, o) ==
    LET w1 == jira(w, "create_issue_link", o)
    IN  handle_jira_exception(
            Remote(w1, "create_issue_link", "create_issue_link", w1.h,
                   to_issue, <<"R", "e", "l", "a", "t", "e", "s">>,
                   from_issue, o))

create_issue_link(w, from_issue, to_issue, o) ==
    LET w1 == jira(w, "create_issue_link", o)
    IN  handle_jira_exception(
            Remote(w1, "create_issue_link", "create_issue_link", w1.h,
                   from_issue, <<"R", "e", "l", "a", "t", "e", "s">>,
                   to_issue, o))

(* JiraHelper.create_issue: returns the created issue *)
create_issue(w, o) ==
    LET w1 == jira(w, "create_issue", o)
        w2 == Remote(w1, "create_issue", "create_issue", w1.h, NewIssueKey,
                     None, None, o)
    IN  handle_jira_exception(
            IF w2.raised = "none" THEN [w2 EXCEPT !.ret = NewIssueKey] ELSE w2)

(* JiraHelper.assign_issue *)
assign_issue(w, o) ==
    LET w1 == jira(w, "assign_issue", o)
        w2 == issue(w1, "assign_issue", o)
    IN  handle_jira_exception(
            Remote(w2, "assign_issue", "assign_issue", w1.h, w2.iss,
                   w2.config.username, None, o))

---------------------------------------------------------------------------
(* The validation callbacks.  re.search finds the pattern anywhere in the  *)
(* value.                                                                  *)

AllIn(s, i, j, S) == \A k \in i..j : s[k] \in S

(* re.search(r'\w+-\d+', s) *)
SearchIssuePattern(s) ==
    \E i \in 1..Len(s) : \E j \in i..Len(s) : \E k \in (j + 2)..Len(s) :
        /\ AllIn(s, i, j, WordChars)
        /\ s[j + 1] = "-"
        /\ AllIn(s, j + 2, k, Digits)

(* re.search(r'\d+[mhdw]', s) *)
SearchTimePattern(s) ==
    \E i \in 1..Len(s) : \E j \in i..(Len(s) - 1) :
        /\ AllIn(s, i, j, Digits)
        /\ s[j + 1] \in TimeUnits

(* A callback's result: the value handed on, or BadParameter raised *)
Accepted(value) == [ok |-> TRUE, value |-> value]
BadParameter == [ok |-> FALSE, value |-> None]

validate_issue_num(value) ==
    IF value = <<>> THEN Accepted(None)
    ELSE IF ~SearchIssuePattern(value) THEN BadParameter
    ELSE Accepted(value)

validate_time(value) ==
    IF value = <<>> THEN Accepted(None)
    ELSE IF ~SearchTimePattern(value) THEN BadParameter
    ELSE Accepted(value)

---------------------------------------------------------------------------
(* The process *)

ArgSets ==
    [issue_num : IssueInputs, time : TimeInputs, message : MessageInputs,
     dry_run : BOOLEAN, issue_to_link : IssueInputs, rename_branch : BOOLEAN]

NoParams ==
    [issue_num |-> None, time |-> None, message |-> None,
     issue_to_link |-> None]

NewConfig ==
    [jira_server |-> None, username |-> None, password |-> None,
     issue |-> None]

NoAttrs == [jira |-> NoHandle, issue |-> NoIssue]

(* What the process does with the exception that ends an action: click's   *)
(* main shows a BadParameter as a usage error and exits 2, a SystemExit    *)
(* ends the process with its code, any other exception ends it with a      *)
(* traceback and exit code 1.                                              *)
ExitCodeOf(w) ==
    CASE w.raised = "SystemExit" -> w.code
      [] w.raised = "BadParameter" -> UsageErrorExitCode
      [] OTHER -> 1

OutOf(w) ==
    CASE w.raised = "BadParameter" -> Append(w.out, Line("Error: Invalid value", w.ret))
      [] w.raised \in {"JIRAError", "Exception"} -> Append(w.out, Line("Traceback", None))
      [] OTHER -> w.out

(* The state after a step that leaves the world w: the next statement, or  *)
(* the end of the process when an exception is in flight.                  *)
Step(w, next) ==
    /\ config' = w.config
    /\ attrs' = w.attrs
    /\ nconn' = w.nconn
    /\ calls' = w.calls
    /\ out' = OutOf(w)
    /\ pc' = IF w.raised = "none" THEN next ELSE "done"
    /\ exit_code' = IF w.raised = "none" THEN Running ELSE ExitCodeOf(w)

(* cli: the group callback builds the helper and sets the connection fields *)
Cli ==
    /\ pc = "cli"
    /\ LET w1 == set_config(World, "jira_server", <<"s", "r", "v">>)
           w2 == set_config(w1, "username", <<"u", "s", "r">>)
           w3 == set_config(w2, "password", <<"p", "w", "d">>)
       IN  Step(w3, "parse")
    /\ UNCHANGED <<cmd, args, params, new_issue, branch, nops>>

(* The option callbacks of commit-time, run before the command body *)
ParseCommitTime ==
    /\ pc = "parse"
    /\ cmd = "commit_time"
    /\ LET i == validate_issue_num(args.issue_num)
           t == validate_time(args.time)
       IN  IF i.ok /\ t.ok
           THEN /\ params' = [NoParams EXCEPT !.issue_num = i.value,
                                              !.time = t.value,
                                              !.message = args.message]
                /\ Step(World, "ct_check_time")
           ELSE /\ params' = params
                /\ \E bad \in {p \in {"issue_num", "time"} :
                                 \/ p = "issue_num" /\ ~i.ok
                                 \/ p = "time" /\ ~t.ok} :
                       Step([World EXCEPT !.raised = "BadParameter",
                                          !.ret = args[bad]], "done")
    /\ UNCHANGED <<cmd, args, new_issue, branch, nops>>

(* The option callbacks of create-issue *)
ParseCreateIssue ==
    /\ pc = "parse"
    /\ cmd = "create_issue"
    /\ LET l == validate_issue_num(args.issue_to_link)
       IN  IF l.ok
           THEN /\ params' = [NoParams EXCEPT !.issue_to_link = l.value,
                                              !.message = args.message]
                /\ Step(World, "ci_dry_run")
           ELSE /\ params' = params
                /\ Step([World EXCEPT !.raised = "BadParameter",
                                      !.ret = args.issue_to_link], "done")
    /\ UNCHANGED <<cmd, args, new_issue, branch, nops>>

---------------------------------------------------------------------------
(* commit_time *)

(* `if not time:` *)
SkipTimeCommit_never(time) == FALSE

SkipTimeCommit(time) == Falsy(time)

CT_CheckTime ==
    /\ pc = "ct_check_time"
    /\ IF SkipTimeCommit(params.time)
       THEN Step(SysExit(Echo(World, "Skipped time commit", None), 0), "done")
       ELSE Step(World, "ct_set_issue")
    /\ UNCHANGED <<cmd, args, params, new_issue, branch, nops>>

CT_SetIssue ==
    /\ pc = "ct_set_issue"
    /\ Step(set_config(World, "issue", params.issue_num), "ct_dry_run")
    /\ UNCHANGED <<cmd, args, params, new_issue, branch, nops>>

(* `if dry_run:` prints the notice and falls through to the report *)
CT_DryRun ==
    /\ pc = "ct_dry_run"
    /\ IF args.dry_run
       THEN Step(Echo(World, "Running in dry run mode", None), "ct_report")
       ELSE Step(World, "ct_add_worklog")
    /\ UNCHANGED <<cmd, args, params, new_issue, branch, nops>>

CT_AddWorklog ==
    /\ pc = "ct_add_worklog"
    /\ \E o \in Oracles :
           Step(add_worklog(World, params.time, params.message, o),
                "ct_add_comment")
    /\ UNCHANGED <<cmd, args, params, new_issue, branch, nops>>

CT_AddComment ==
    /\ pc = "ct_add_comment"
    /\ \E o \in Oracles :
           Step(add_comment(World, params.message, o), "ct_report")
    /\ UNCHANGED <<cmd, args, params, new_issue, branch, nops>>

(* The three echoes and sys.exit(0); the second reads jira_helper.issue *)
CT_Report ==
    /\ pc = "ct_report"
    /\ \E o \in Oracles :
           LET w1 == Echo(World, "Successfully committed time to JIRA", None)
               w2 == issue(w1, "commit_time", o)
               w3 == Echo(w2, "Issue: permalink", Permalink(w2.iss))
               w4 == Echo(w3, "Time spent", params.time)
           IN  Step(SysExit(w4, 0), "done")
    /\ UNCHANGED <<cmd, args, params, new_issue, branch, nops>>

---------------------------------------------------------------------------
(* create_issue (the command) *)

(* `if dry_run:` prints the notice and exits 0 *)
CreateIsDryRun_never(dry_run) == FALSE

CreateIsDryRun(dry_run) == dry_run

CI_DryRun ==
    /\ pc = "ci_dry_run"
    /\ IF CreateIsDryRun(args.dry_run)
       THEN Step(SysExit(Echo(World,
                    "Running in dry run mode. Issue wont be created", None), 0),
                 "done")
       ELSE Step(World, "ci_create")
    /\ UNCHANGED <<cmd, args, params, new_issue, branch, nops>>

(* new_issue = jira_helper.create_issue(...); set_config('issue', new_issue) *)
CI_Create ==
    /\ pc = "ci_create"
    /\ \E o \in Oracles :
           LET w1 == create_issue(World, o)
           IN  /\ new_issue' = IF w1.raised = "none" THEN w1.ret ELSE new_issue
               /\ Step(set_config(w1, "issue", w1.ret), "ci_assign")
    /\ UNCHANGED <<cmd, args, params, branch, nops>>

CI_Assign ==
    /\ pc = "ci_assign"
    /\ \E o \in Oracles : Step(assign_issue(World, o), "ci_comment")
    /\ UNCHANGED <<cmd, args, params, new_issue, branch, nops>>

(* `if message:` *)
CommentWanted_always(message) == TRUE

CommentWanted(message) == ~Falsy(message)

CI_Comment ==
    /\ pc = "ci_comment"
    /\ IF CommentWanted(params.message)
       THEN \E o \in Oracles : Step(add_comment(World, params.message, o), "ci_link")
       ELSE Step(World, "ci_link")
    /\ UNCHANGED <<cmd, args, params, new_issue, branch, nops>>

(* `if issue_to_link:`; the argument jira_helper.issue is read first *)
CI_Link ==
    /\ pc = "ci_link"
    /\ IF ~Falsy(params.issue_to_link)
       THEN \E o \in Oracles :
                LET w1 == issue(World, "create_issue_cmd", o)
                IN  Step(create_issue_link(w1, w1.iss, params.issue_to_link, o),
                         "ci_report")
       ELSE Step(World, "ci_report")
    /\ UNCHANGED <<cmd, args, params, new_issue, branch, nops>>

(* `if rename_branch:` guards both the git call and the echo of the key *)
KeyEchoed_always(rename_branch) == TRUE

KeyEchoed(rename_branch) == rename_branch

(* The two echoes, the optional `git branch -m` (subprocess.call, which    *)
(* raises OSError when git cannot be run) with the echo of the key, and    *)
(* sys.exit(0).                                                            *)
CI_Report ==
    /\ pc = "ci_report"
    /\ \E git_ok \in BOOLEAN :
           LET w1 == Echo(World, "Successfully created a new issue in JIRA", None)
               w2 == Echo(w1, "Issue: permalink", Permalink(new_issue))
               w3 == IF KeyEchoed(args.rename_branch)
                     THEN IF args.rename_branch /\ ~git_ok
                          THEN Raise(w2, "Exception")
                          ELSE Echo(w2, "key", new_issue)
                     ELSE w2
           IN  /\ branch' = IF args.rename_branch /\ git_ok
                            THEN new_issue ELSE branch
               /\ Step(SysExit(w3, 0), "done")
    /\ UNCHANGED <<cmd, args, params, new_issue, nops>>

---------------------------------------------------------------------------
(* The runs of the two commands *)

CommitTimeArgs ==
    {a \in ArgSets : a.issue_to_link = <<>> /\ a.rename_branch = FALSE}
CreateIssueArgs ==
    {a \in ArgSets : a.issue_num = <<>> /\ a.time = <<>>}

Init ==
    /\ pc = "cli"
    /\ cmd \in {"commit_time", "create_issue"}
    /\ args \in IF cmd = "commit_time" THEN CommitTimeArgs ELSE CreateIssueArgs
    /\ params = NoParams
    /\ config = NewConfig
    /\ attrs = NoAttrs
    /\ nconn = 0
    /\ calls = <<>>
    /\ out = <<>>
    /\ exit_code = Running
    /\ new_issue = None
    /\ branch = None
    /\ nops = 0

Next ==
    \/ Cli
    \/ ParseCommitTime
    \/ ParseCreateIssue
    \/ CT_CheckTime
    \/ CT_SetIssue
    \/ CT_DryRun
    \/ CT_AddWorklog
    \/ CT_AddComment
    \/ CT_Report
    \/ CI_DryRun
    \/ CI_Create
    \/ CI_Assign
    \/ CI_Comment
    \/ CI_Link
    \/ CI_Report

Spec == Init /\ [][Next]_vars

---------------------------------------------------------------------------
(* A direct caller of a configured JiraHelper, invoking its operations in  *)
(* any order, at most MaxOps of them.  An exception ends the caller.       *)

HelperStep(w) ==
    /\ Step(w, "helper")
    /\ nops' = nops + 1
    /\ UNCHANGED <<cmd, args, params, new_issue, branch>>

HelperReady == pc = "helper" /\ nops < MaxOps

H_SetConfig ==
    /\ HelperReady
    /\ \E id \in HelperIssueIds : HelperStep(set_config(World, "issue", id))

H_Issue ==
    /\ HelperReady
    /\ \E o \in Oracles : HelperStep(issue(World, "caller", o))

H_AddWorklog ==
    /\ HelperReady
    /\ \E o \in Oracles :
           HelperStep(add_worklog(World, <<"3", "m">>, <<"m", "s", "g">>, o))

H_AddComment ==
    /\ HelperReady
    /\ \E o \in Oracles : HelperStep(add_comment(World, <<"m", "s", "g">>, o))

H_CreateIssue ==
    /\ HelperReady
    /\ \E o \in Oracles : HelperStep(create_issue(World, o))

H_AssignIssue ==
    /\ HelperReady
    /\ \E o \in Oracles : HelperStep(assign_issue(World, o))

H_CreateIssueLink ==
    /\ HelperReady
    /\ \E o \in Oracles : \E from \in HelperIssueIds : \E to \in HelperIssueIds :
           HelperStep(create_issue_link(World, from, to, o))

HelperInit ==
    /\ pc = "helper"
    /\ cmd = "helper"
    /\ args \in {a \in CreateIssueArgs :
                    /\ a.issue_to_link = <<>> /\ a.message = <<>>
                    /\ ~a.dry_run /\ ~a.rename_branch}
    /\ params = NoParams
    /\ config = [NewConfig EXCEPT !.jira_server = <<"s", "r", "v">>,
                                  !.username = <<"u", "s", "r">>,
                                  !.password = <<"p", "w", "d">>]
    /\ attrs = NoAttrs
    /\ nconn = 0
    /\ calls = <<>>
    /\ out = <<>>
    /\ exit_code = Running
    /\ new_issue = None
    /\ branch = None
    /\ nops = 0

HelperNext ==
    \/ H_SetConfig
    \/ H_Issue
    \/ H_AddWorklog
    \/ H_AddComment
    \/ H_CreateIssue
    \/ H_AssignIssue
    \/ H_CreateIssueLink

HelperSpec == HelperInit /\ [][HelperNext]_vars

---------------------------------------------------------------------------
(* The validation callbacks on their own: one callback applied to one      *)
(* value of up to MaxValidateLen characters, `!` standing for a character  *)
(* that is neither a word character nor a hyphen.                          *)

ValidateIssueAlphabet == {"A", "-", "1", "!"}
ValidateIssueInputs == Strs(ValidateIssueAlphabet, MaxValidateLen)
ValidateTimeInputs == Strs(TimeAlphabet, MaxValidateLen)

ValidateInit ==
    /\ pc = "validate"
    /\ cmd \in {"validate_issue_num", "validate_time"}
    /\ args \in {[issue_num |-> i, time |-> t, message |-> <<>>,
                  dry_run |-> FALSE, issue_to_link |-> <<>>,
                  rename_branch |-> FALSE] :
                     i \in IF cmd = "validate_issue_num"
                           THEN ValidateIssueInputs ELSE {<<>>},
                     t \in IF cmd = "validate_time"
                           THEN ValidateTimeInputs ELSE {<<>>}}
    /\ params = NoParams
    /\ config = NewConfig
    /\ attrs = NoAttrs
    /\ nconn = 0
    /\ calls = <<>>
    /\ out = <<>>
    /\ exit_code = Running
    /\ new_issue = None
    /\ branch = None
    /\ nops = 0

(* The callback returns (pc = "returned", the value in params) or raises   *)
(* click.BadParameter (pc = "raised", the format error in out).            *)
Validated(r, name, text) ==
    /\ pc' = IF r.ok THEN "returned" ELSE "raised"
    /\ params' = [params EXCEPT ![name] = r.value]
    /\ out' = IF r.ok THEN out ELSE Append(out, Line(text, args[name]))
    /\ UNCHANGED <<cmd, args, config, attrs, nconn, calls, exit_code,
                   new_issue, branch, nops>>

V_ValidateIssueNum ==
    /\ pc = "validate"
    /\ cmd = "validate_issue_num"
    /\ Validated(validate_issue_num(args.issue_num), "issue_num",
                 "Issue has to be in the format")

V_ValidateTime ==
    /\ pc = "validate"
    /\ cmd = "validate_time"
    /\ Validated(validate_time(args.time), "time",
                 "Time has to be in the format")

ValidateNext ==
    \/ V_ValidateIssueNum
    \/ V_ValidateTime

ValidateSpec == ValidateInit /\ [][ValidateNext]_vars

---------------------------------------------------------------------------
(* Vocabulary of the properties *)

CallsOf(op) == {i \in DOMAIN calls : calls[i].op = op}
AllCallsOk == \A i \in DOMAIN calls : calls[i].result = "ok"
Printed(text) == \E i \in DOMAIN out : out[i].text = text
PrintedVal(text, val) ==
    \E i \in DOMAIN out : out[i].text = text /\ out[i].val = val
PrintedSuccess ==
    \/ Printed("Successfully committed time to JIRA")
    \/ Printed("Successfully created a new issue in JIRA")
NoRemoteCall == calls = <<>> /\ nconn = 0 /\ attrs = NoAttrs
Done == pc = "done"

(* A value of exactly the form \d+[mhdw], resp. \w+-\d+ *)
IsDuration(s) ==
    /\ Len(s) >= 2
    /\ AllIn(s, 1, Len(s) - 1, Digits)
    /\ s[Len(s)] \in TimeUnits
IsIssueId(s) ==
    \E j \in 1..Len(s) :
        /\ j + 2 <= Len(s)
        /\ AllIn(s, 1, j, WordChars)
        /\ s[j + 1] = "-"
        /\ AllIn(s, j + 2, Len(s), Digits)
IssueNumPasses == args.issue_num = <<>> \/ SearchIssuePattern(args.issue_num)
IssueToLinkPasses ==
    args.issue_to_link = <<>> \/ SearchIssuePattern(args.issue_to_link)

---------------------------------------------------------------------------
(* C1: a commit-time run with the dry-run flag and a valid duration (and   *)
(* a well-formed issue identifier) makes no remote call of any kind and    *)
(* ends with exit code 0.                                                  *)
C1_DryRunCommitMakesNoRemoteCall ==
    (/\ cmd = "commit_time"
     /\ args.dry_run
     /\ IsDuration(args.time)
     /\ IsIssueId(args.issue_num))
    => (NoRemoteCall /\ (Done => exit_code = 0))

(* C2, as stated: a commit-time run with a valid duration and no dry-run   *)
(* ends with exactly one worklog and exactly one comment submitted, the    *)
(* worklog first, both against the issue given on the command line, and    *)
(* with the permalink and duration printed and exit code 0 when both       *)
(* succeed.                                                                *)
C2_ExactlyOneWorklogThenComment ==
    (/\ cmd = "commit_time"
     /\ ~args.dry_run
     /\ IsDuration(args.time)
     /\ IsIssueId(args.issue_num)
     /\ Done)
    => (/\ Cardinality(CallsOf("add_worklog")) = 1
        /\ Cardinality(CallsOf("add_comment")) = 1
        /\ \A i \in CallsOf("add_worklog") : \A j \in CallsOf("add_comment") :
               /\ i < j
               /\ calls[i].issue = args.issue_num
               /\ calls[j].issue = args.issue_num
               /\ (calls[i].result = "ok" /\ calls[j].result = "ok")
                      => (/\ PrintedVal("Issue: permalink", Permalink(args.issue_num))
                          /\ PrintedVal("Time spent", args.time)
                          /\ exit_code = 0))

(* C2, amended: in a commit-time run at most one worklog and at most one   *)
(* comment are submitted, a comment only after the worklog succeeded, both *)
(* against the issue fetched for the --issue-num value; a run without      *)
(* dry-run whose duration and identifier pass validation and in which no   *)
(* remote call fails submits exactly one of each, prints the permalink and *)
(* the duration and exits 0.                                               *)
C2_WorklogThenCommentUnlessFailure ==
    cmd = "commit_time" =>
        /\ Cardinality(CallsOf("add_worklog")) <= 1
        /\ Cardinality(CallsOf("add_comment")) <= 1
        /\ \A j \in CallsOf("add_comment") :
               \E i \in CallsOf("add_worklog") :
                   i < j /\ calls[i].result = "ok"
        /\ \A i \in CallsOf("add_worklog") \cup CallsOf("add_comment") :
               /\ calls[i].issue = params.issue_num
               /\ args.issue_num # <<>> => calls[i].issue = args.issue_num
        /\ (/\ Done
            /\ ~args.dry_run
            /\ SearchTimePattern(args.time)
            /\ IssueNumPasses
            /\ AllCallsOk)
           => (/\ Cardinality(CallsOf("add_worklog")) = 1
               /\ Cardinality(CallsOf("add_comment")) = 1
               /\ PrintedVal("Issue: permalink", Permalink(params.issue_num))
               /\ PrintedVal("Time spent", args.time)
               /\ exit_code = 0)

C2_Witness ==
    /\ cmd = "commit_time"
    /\ Done
    /\ ~args.dry_run
    /\ IsDuration(args.time)
    /\ IsIssueId(args.issue_num)
    /\ AllCallsOk
    /\ Cardinality(CallsOf("add_worklog")) = 1
    /\ Cardinality(CallsOf("add_comment")) = 1
    /\ exit_code = 0

(* C3: whenever the remote service has failed during a mutating helper     *)
(* call, the process has ended with a non-zero exit code and no            *)
(* "Successfully..." line is in the output.                                *)
FailedMutatingCall ==
    \E i \in DOMAIN calls :
        calls[i].via \in MutatingOps /\ calls[i].result # "ok"

C3_RemoteFailureExitsNonZeroWithoutSuccess ==
    FailedMutatingCall
        => (Done /\ exit_code # 0 /\ exit_code # Running /\ ~PrintedSuccess)

C3_Witness ==
    /\ Done
    /\ exit_code = ClickExceptionExitCode
    /\ \E i \in DOMAIN calls :
           /\ calls[i].op \in MutatingOps
           /\ calls[i].result = "JIRAError"
           /\ i > 1
    /\ PrintedVal("Error: JIRAError.text", <<calls[Len(calls)].op>>)

(* C4: a commit-time run whose duration is non-empty but fails the format  *)
(* check is skipped like an empty duration: no remote call, the skip       *)
(* notice, exit code 0.                                                    *)
C4_MalformedDurationIsSkipped ==
    (/\ cmd = "commit_time"
     /\ args.time # <<>>
     /\ ~SearchTimePattern(args.time)
     /\ IsIssueId(args.issue_num)
     /\ Done)
    => (NoRemoteCall /\ Printed("Skipped time commit") /\ exit_code = 0)

(* C5: a create-issue run without dry-run in which no remote call fails    *)
(* makes exactly one issue-creation call, then exactly one assignment      *)
(* call, exactly one comment call iff the message is non-empty and exactly *)
(* one link call iff issue-to-link is non-empty; an assignment never       *)
(* precedes the creation.                                                  *)
C5_CreateIssueCallCounts ==
    cmd = "create_issue" =>
        /\ \A a \in CallsOf("assign_issue") :
               \E c \in CallsOf("create_issue") : c < a
        /\ (Done /\ ~args.dry_run /\ IssueToLinkPasses /\ AllCallsOk)
           => (/\ Cardinality(CallsOf("create_issue")) = 1
               /\ Cardinality(CallsOf("assign_issue")) = 1
               /\ Cardinality(CallsOf("add_comment"))
                      = IF args.message # <<>> THEN 1 ELSE 0
               /\ Cardinality(CallsOf("create_issue_link"))
                      = IF args.issue_to_link # <<>> THEN 1 ELSE 0)

C5_Witness ==
    /\ cmd = "create_issue"
    /\ Done
    /\ ~args.dry_run
    /\ AllCallsOk
    /\ args.message # <<>>
    /\ args.issue_to_link # <<>>
    /\ Cardinality(CallsOf("add_comment")) = 1
    /\ Cardinality(CallsOf("create_issue_link")) = 1

(* C6: whatever helper operations are invoked and in whatever order, the   *)
(* session is constructed at most once and every call on the session uses  *)
(* that one handle.                                                        *)
C6_SessionConstructedAtMostOnce ==
    /\ nconn <= 1
    /\ Cardinality({i \in CallsOf("JIRA") : calls[i].result = "ok"}) <= 1
    /\ \A i \in DOMAIN calls : \A j \in DOMAIN calls :
           (calls[i].op # "JIRA" /\ calls[j].op # "JIRA")
               => (calls[i].handle = calls[j].handle /\ calls[i].handle = attrs.jira)

C6_Witness ==
    /\ nconn = 1
    /\ \E i \in DOMAIN calls : \E j \in DOMAIN calls :
           /\ i < j
           /\ calls[i].via # calls[j].via
           /\ calls[i].op \in MutatingOps
           /\ calls[j].op \in MutatingOps

(* C7: in a commit-time run with the dry-run flag, once the dry-run notice *)
(* is printed nothing that reports a performed commit is printed: no       *)
(* "Successfully committed time" line and no permalink line.               *)
C7_DryRunCommitReportsNothing ==
    (/\ cmd = "commit_time"
     /\ args.dry_run
     /\ Printed("Running in dry run mode"))
    => (/\ ~Printed("Successfully committed time to JIRA")
        /\ ~Printed("Issue: permalink"))

(* C8, as stated: a commit-time run with an empty duration makes no remote *)
(* call, prints the skip notice and exits 0, whatever the issue            *)
(* identifier, message and dry-run flag.                                   *)
C8_EmptyDurationAlwaysSkips ==
    (cmd = "commit_time" /\ args.time = <<>>)
    => (/\ NoRemoteCall
        /\ Done => (Printed("Skipped time commit") /\ exit_code = 0))

(* C8, amended: a commit-time run with an empty duration makes no remote   *)
(* call whatever the other inputs; it prints the skip notice and exits 0   *)
(* provided the issue identifier is empty or passes its format check, and  *)
(* is otherwise rejected as a usage error with exit code 2.                *)
C8_EmptyDurationSkipsUnlessRejected ==
    (cmd = "commit_time" /\ args.time = <<>>)
    => (/\ NoRemoteCall
        /\ (Done /\ IssueNumPasses)
               => (Printed("Skipped time commit") /\ exit_code = 0)
        /\ (Done /\ ~IssueNumPasses)
               => (/\ ~Printed("Skipped time commit")
                   /\ exit_code = UsageErrorExitCode))

C8_Witness ==
    /\ cmd = "commit_time"
    /\ args.time = <<>>
    /\ IsIssueId(args.issue_num)
    /\ ~args.dry_run
    /\ args.message # <<>>
    /\ Done
    /\ Printed("Skipped time commit")
    /\ exit_code = 0

CreateSucceeded ==
    /\ cmd = "create_issue"
    /\ ~args.dry_run
    /\ Done
    /\ exit_code = 0

C10_SuccessPrintsPermalinkAndKey ==
    CreateSucceeded
        => (/\ PrintedVal("Issue: permalink", Permalink(NewIssueKey))
            /\ PrintedVal("key", NewIssueKey))

(* C10, amended: every create-issue run that completes successfully prints *)
(* the new issue's permalink; it prints the new issue's key exactly when   *)
(* the rename-branch flag is set.                                          *)
C10_SuccessPrintsPermalinkAndKeyIfRenamed ==
    CreateSucceeded
        => (/\ AllCallsOk
            /\ PrintedVal("Issue: permalink", Permalink(NewIssueKey))
            /\ PrintedVal("key", NewIssueKey) <=> args.rename_branch)

C10_Witness ==
    /\ CreateSucceeded
    /\ ~args.rename_branch
    /\ PrintedVal("Issue: permalink", Permalink(NewIssueKey))
    /\ ~Printed("key")

---------------------------------------------------------------------------
(* C11: validate_issue_num accepts (returns unchanged) every value of the  *)
(* form \w+-\d+ and rejects with the format error every non-empty value    *)
(* that is not of that form.                                               *)
C11_IssueNumAcceptedIffOfTheForm ==
    (cmd = "validate_issue_num" /\ pc # "validate" /\ args.issue_num # <<>>)
    => (/\ IsIssueId(args.issue_num)
            => (pc = "returned" /\ params.issue_num = args.issue_num)
        /\ ~IsIssueId(args.issue_num)
            => (pc = "raised"
                /\ Printed("Issue has to be in the format")))

(* C12 *)
ValidationPasses ==
    /\ cmd = "commit_time"
           => (/\ IssueNumPasses
               /\ args.time = <<>> \/ SearchTimePattern(args.time))
    /\ cmd = "create_issue" => IssueToLinkPasses
Translated == Printed("Error: JIRAError.text")
Rejected == Printed("Error: Invalid value")
GitFailed ==
    /\ cmd = "create_issue"
    /\ args.rename_branch
    /\ Printed("Successfully created a new issue in JIRA")
    /\ branch = None
EndedWell == ValidationPasses /\ AllCallsOk /\ ~GitFailed

(* C12, as stated: the exit code is 0 exactly when the run completes or    *)
(* skips, and a translated remote error and a validation rejection exit    *)
(* with one and the same non-zero code (the code the helper exits with).   *)
C12_OneFixedNonZeroExitCode ==
    Done => (/\ exit_code = 0 <=> EndedWell
             /\ Translated => exit_code = ClickExceptionExitCode
             /\ Rejected => exit_code = ClickExceptionExitCode)

(* C12, amended: the exit code is 0 exactly when the run completes or      *)
(* takes the skip path; a remote error translated by the helper exits with *)
(* click.ClickException.exit_code (1) and a validation rejection exits     *)
(* with click's usage-error code (2), which is a different code.           *)
C12_ExitCodeByOutcome ==
    Done => (/\ exit_code = 0 <=> EndedWell
             /\ Translated => exit_code = ClickExceptionExitCode
             /\ Rejected => exit_code = UsageErrorExitCode
             /\ Rejected => exit_code # ClickExceptionExitCode
             /\ ~(Translated /\ Rejected))

C12_Witness ==
    /\ Done
    /\ Rejected
    /\ cmd = "commit_time"
    /\ IsIssueId(args.issue_num)
    /\ ~SearchTimePattern(args.time)
    /\ exit_code = UsageErrorExitCode

(* C13: no remote call is made on behalf of an issue identifier or a       *)
(* duration that is not of its form: every issue fetch, worklog and        *)
(* comment of a commit-time run carries an identifier of the form \w+-\d+  *)
(* and every worklog a duration of the form \d+[mhdw]; every link call of  *)
(* a create-issue run carries an issue-to-link of the form \w+-\d+.        *)
(* (Stated for the runs that are given an issue identifier.)               *)
C13_RemoteCallsCarryWellFormedValues ==
    /\ (cmd = "commit_time" /\ args.issue_num # <<>>) =>
           \A i \in DOMAIN calls :
               /\ calls[i].op \in {"issue", "add_worklog", "add_comment"}
                      => IsIssueId(calls[i].issue)
               /\ calls[i].op = "add_worklog" => IsDuration(calls[i].a)
    /\ cmd = "create_issue" =>
           \A i \in CallsOf("create_issue_link") : IsIssueId(calls[i].b)

(* C14: the cached Issue object always corresponds to the current          *)
(* active-issue identifier: whenever JiraHelper holds a cached issue, it   *)
(* is the issue fetched for the identifier now in config['issue'] (so an   *)
(* access returns the issue of the most recently set identifier).  Stated  *)
(* for a helper whose identifier was set before the first access.          *)
C14_CachedIssueIsOfCurrentIdentifier ==
    (attrs.issue # NoIssue /\ attrs.issue # <<None>>)
        => attrs.issue[1] = config.issue

(* C15: in every run of commit-time and create-issue the active issue is   *)
(* fetched at most once, the command has set the active-issue identifier   *)
(* before that fetch (to --issue-num, resp. to the issue it created), and  *)
(* the identifier is not changed after the fetch: the fetched and the      *)
(* cached issue are always those of the identifier in config['issue'].     *)
BeforeIssueIsSet ==
    {"cli", "parse", "ct_check_time", "ct_set_issue", "ci_dry_run", "ci_create"}

C15_IssueFetchedOnceAfterIdentifierSet ==
    /\ Cardinality(CallsOf("issue")) <= 1
    /\ \A i \in CallsOf("issue") :
           /\ pc \notin BeforeIssueIsSet
           /\ calls[i].issue = config.issue
           /\ cmd = "commit_time" => calls[i].issue = params.issue_num
           /\ cmd = "create_issue" =>
                  /\ calls[i].issue = new_issue
                  /\ \E c \in CallsOf("create_issue") :
                         c < i /\ calls[c].result = "ok"
    /\ attrs.issue # NoIssue => attrs.issue[1] = config.issue

C15_Witness ==
    /\ cmd = "commit_time"
    /\ Done
    /\ exit_code = 0
    /\ ~args.dry_run
    /\ IsIssueId(args.issue_num)
    /\ Cardinality(CallsOf("issue")) = 1
    /\ CallsOf("add_worklog") # {}
    /\ CallsOf("add_comment") # {}
    /\ Printed("Issue: permalink")

(* C16: commit-time is not atomic.  If the worklog submission succeeded    *)
(* and the comment submission failed, the run has ended with a non-zero    *)
(* exit code, the successful worklog is still the recorded one and no call *)
(* follows the failed comment (nothing compensates); if the worklog        *)
(* submission failed, no comment submission is attempted.                  *)
C16_CommitTimeNotAtomic ==
    cmd = "commit_time" =>
        /\ \A j \in CallsOf("add_comment") :
               calls[j].result # "ok" =>
                   /\ Done
                   /\ exit_code # 0 /\ exit_code # Running
                   /\ j = Len(calls)
                   /\ \E i \in CallsOf("add_worklog") :
                          i < j /\ calls[i].result = "ok"
        /\ \A i \in DOMAIN calls :
               (calls[i].via = "add_worklog" /\ calls[i].result # "ok") =>
                   /\ Done
                   /\ exit_code # 0 /\ exit_code # Running
                   /\ \A j \in DOMAIN calls : calls[j].via # "add_comment"

C16_Witness ==
    /\ cmd = "commit_time"
    /\ Done
    /\ exit_code = ClickExceptionExitCode
    /\ \E i \in CallsOf("add_worklog") : \E j \in CallsOf("add_comment") :
           /\ i < j
           /\ calls[i].result = "ok"
           /\ calls[j].result = "JIRAError"

(* C17: there is no retry.  Each mutating remote operation is attempted at *)
(* most once in a run, and a failed mutating call is the last remote call  *)
(* of the run: the process has terminated.                                 *)
C17_NoRetry ==
    /\ \A op \in MutatingOps : Cardinality(CallsOf(op)) <= 1
    /\ \A i \in DOMAIN calls :
           (calls[i].via \in MutatingOps /\ calls[i].result # "ok")
               => (i = Len(calls) /\ Done)

C17_Witness ==
    /\ cmd = "create_issue"
    /\ Done
    /\ Len(calls) >= 4
    /\ calls[Len(calls)].op = "add_comment"
    /\ calls[Len(calls)].result # "ok"
    /\ args.issue_to_link # <<>>
    /\ CallsOf("create_issue_link") = {}

(* C18 *)
Configured ==
    /\ config.jira_server # None
    /\ config.username # None
    /\ config.password # None
IssueBound == config.issue # None
Skipped == Printed("Skipped time commit")
EndsBeforeIssueIsBound ==
    \/ Rejected
    \/ Skipped
    \/ /\ cmd = "create_issue"
       /\ \/ args.dry_run
          \/ \A c \in CallsOf("create_issue") : calls[c].result # "ok"

(* C18, as stated: a run (whose arguments pass validation and name an      *)
(* issue) reaches a terminal state only after the connection fields and    *)
(* the active issue identifier have been set, and Skipped is reached only  *)
(* by commit-time with no usable duration.                                 *)
C18_TerminalOnlyAfterIssueBound ==
    (/\ Done
     /\ ValidationPasses
     /\ cmd = "commit_time" => args.issue_num # <<>>)
    => (/\ Configured
        /\ IssueBound
        /\ Skipped => (cmd = "commit_time" /\ Falsy(params.time)))

(* C18, amended: every run reaches a terminal state only after the         *)
(* connection fields have been set; the active issue identifier has been   *)
(* set before termination except in a Skipped run, a create-issue dry run, *)
(* a run rejected by validation and a create-issue run whose creation      *)
(* failed, which end with no issue bound; Skipped is reached only by       *)
(* commit-time with an empty duration, with exit code 0 and no remote call.*)
C18_TerminalStates ==
    Done =>
        /\ Configured
        /\ Skipped => (/\ cmd = "commit_time"
                       /\ args.time = <<>>
                       /\ exit_code = 0
                       /\ calls = <<>>)
        /\ EndsBeforeIssueIsBound => ~IssueBound
        /\ ~EndsBeforeIssueIsBound
               => config.issue = IF cmd = "commit_time"
                                 THEN params.issue_num ELSE NewIssueKey

C18_Witness ==
    /\ Done
    /\ Skipped
    /\ Configured
    /\ ~IssueBound
    /\ IsIssueId(args.issue_num)
    /\ exit_code = 0

(* C19 *)
Propagated == Printed("Traceback")
FailedConstruction == {i \in CallsOf("JIRA") : calls[i].result # "ok"}

(* C19, as stated: whichever helper operation triggers the construction of *)
(* the session, a construction failure is never translated by the helper   *)
(* (error shown, exit with the fixed code); it propagates to the caller.   *)
C19_ConstructionFailureNeverTranslated ==
    FailedConstruction # {} => (~Translated /\ Propagated)

(* C19, amended: a construction failure propagates to the caller unchanged *)
(* when it is not a JIRAError, or when the session is first accessed       *)
(* outside the wrapped operations (through JiraHelper.issue); a JIRAError  *)
(* raised by the construction inside add_worklog, add_comment,             *)
(* create_issue, assign_issue or create_issue_link is caught by            *)
(* handle_jira_exception: it is shown and the process exits with           *)
(* click.ClickException.exit_code.                                         *)
C19_ConstructionFailureTranslatedInWrappedCalls ==
    \A i \in FailedConstruction :
        /\ Done
        /\ i = Len(calls)
        /\ (calls[i].result = "JIRAError" /\ calls[i].via \in MutatingOps)
               => (/\ Translated
                   /\ ~Propagated
                   /\ exit_code = ClickExceptionExitCode)
        /\ (calls[i].result # "JIRAError" \/ calls[i].via \notin MutatingOps)
               => (~Translated /\ Propagated)

C19_Witness ==
    /\ nops = 2
    /\ Done
    /\ Translated
    /\ \E i \in FailedConstruction :
           calls[i].result = "JIRAError" /\ calls[i].via = "add_comment"

(* C20: in a create-issue run the assignment, the comment and the link     *)
(* call all target the issue that the run's issue-creation call created,   *)
(* the assignee is the configured username, and the link goes from the new *)
(* issue to the given issue-to-link with relation 'Relates'.               *)
CreatedBefore(i) ==
    \E c \in CallsOf("create_issue") :
        /\ c < i
        /\ calls[c].result = "ok"
        /\ calls[c].issue = calls[i].issue
        /\ new_issue = calls[c].issue

===========================================================================
